---- MODULE Spec2Model ----
(***************************************************************************)
(* SalesProcessor (src/src/sales_processor.py) driven as in src/main.py:   *)
(* a CSV source is read in chunks of `chunksize` rows, every chunk is      *)
(* normalised, compacted and merged into five running aggregates, a        *)
(* resource line is printed per chunk and print_summary reports the maxima.*)
(*                                                                         *)
(* A DataFrame is [columns, dtypes, data]: the column names (sequences of  *)
(* one-character strings), one dtype per column and the rows, each a       *)
(* sequence of values aligned with the columns.  A Python dict is the      *)
(* sequence of its items [k, v] in insertion order.                        *)
(*                                                                         *)
(* Amounts (total_revenue) range over whole numbers that every float width *)
(* the compaction can choose represents exactly, together with all their   *)
(* sums; on such amounts float addition is integer addition.  Rounding of  *)
(* other amounts lies outside this model.                                  *)
(***************************************************************************)
EXTENDS Integers, Sequences, FiniteSets, TLC

VARIABLES source, chunksize, pc, error, pos, chunk_number, chunk,
          product_sales, sales_channel_sales, country_sales, region_sales,
          monthly_sales, telemetry, summary, runs, constructed, first_run

vars == <<source, chunksize, pc, error, pos, chunk_number, chunk,
          product_sales, sales_channel_sales, country_sales, region_sales,
          monthly_sales, telemetry, summary, runs, constructed, first_run>>

aggregates == <<product_sales, sales_channel_sales, country_sales,
                region_sales, monthly_sales>>

(* ------------------------------ bounds --------------------------------- *)
MaxRows == 3
MaxChunk == 3
MaxRuns == 2

(* --------------------------- small helpers ----------------------------- *)
Min(a, b) == IF a < b THEN a ELSE b

RECURSIVE SumSeq(_)
SumSeq(s) == IF s = <<>> THEN 0 ELSE Head(s) + SumSeq(Tail(s))

Range(s) == {s[i] : i \in DOMAIN s}

IndexOf(s, e) == IF \E i \in DOMAIN s : s[i] = e
                 THEN CHOOSE i \in DOMAIN s : s[i] = e /\ \A j \in 1..(i - 1) : s[j] # e
                 ELSE 0

DropAt(s, i) == [j \in 1..(Len(s) - 1) |-> IF j < i THEN s[j] ELSE s[j + 1]]

(* ------------------- column names and normalisation -------------------- *)
Whitespace == {" ", "\t"}
UpperCase == <<"A","B","C","D","E","F","G","H","I","J","K","L","M",
               "N","O","P","Q","R","S","T","U","V","W","X","Y","Z">>
LowerCase == <<"a","b","c","d","e","f","g","h","i","j","k","l","m",
               "n","o","p","q","r","s","t","u","v","w","x","y","z">>

RECURSIVE LStrip(_)
LStrip(s) == IF s # <<>> /\ Head(s) \in Whitespace THEN LStrip(Tail(s)) ELSE s

RECURSIVE RStrip(_)
RStrip(s) == IF s # <<>> /\ s[Len(s)] \in Whitespace
             THEN RStrip(SubSeq(s, 1, Len(s) - 1)) ELSE s

str_strip(s) == RStrip(LStrip(s))

str_replace(s, old, new) == [i \in DOMAIN s |-> IF s[i] = old THEN new ELSE s[i]]

str_lower(s) == [i \in DOMAIN s |->
                   LET u == IndexOf(UpperCase, s[i])
                   IN IF u # 0 THEN LowerCase[u] ELSE s[i]]

\* chunk.columns.str.strip().str.replace(' ', '_').str.lower()
NormalizeColumn(name) == str_lower(str_replace(str_strip(name), " ", "_"))

item_type == <<"i","t","e","m","_","t","y","p","e">>
sales_channel == <<"s","a","l","e","s","_","c","h","a","n","n","e","l">>
country == <<"c","o","u","n","t","r","y">>
region == <<"r","e","g","i","o","n">>
units_sold == <<"u","n","i","t","s","_","s","o","l","d">>
total_revenue == <<"t","o","t","a","l","_","r","e","v","e","n","u","e">>
order_date == <<"o","r","d","e","r","_","d","a","t","e">>
ship_date == <<"s","h","i","p","_","d","a","t","e">>

(* ------------------------------ values --------------------------------- *)
\* A cell is a tagged value: text (a sequence of characters), an integer, a
\* float amount, a missing value, a parsed timestamp or a missing timestamp.
Str(chars) == [t |-> "str", v |-> chars]
IntV(n) == [t |-> "int", v |-> n]
FloatV(n) == [t |-> "float", v |-> n]
NaN == [t |-> "nan", v |-> 0]
Timestamp(y, m, d) == [t |-> "datetime", v |-> <<y, m, d>>]
NaT == [t |-> "nat", v |-> <<0, 0, 0>>]

IsNull(x) == x.t \in {"nan", "nat"}

\* Code point order of the characters in use.
Ascii == <<"\t", " ", "-", "0","1","2","3","4","5","6","7","8","9",
           "A","B","C","D","E","F","G","H","I","J","K","L","M",
           "N","O","P","Q","R","S","T","U","V","W","X","Y","Z", "_",
           "a","b","c","d","e","f","g","h","i","j","k","l","m",
           "n","o","p","q","r","s","t","u","v","w","x","y","z">>

RECURSIVE StrLess(_, _)
StrLess(a, b) ==
    IF b = <<>> THEN FALSE
    ELSE IF a = <<>> THEN TRUE
    ELSE IF Head(a) = Head(b) THEN StrLess(Tail(a), Tail(b))
    ELSE IndexOf(Ascii, Head(a)) < IndexOf(Ascii, Head(b))

(* ------------------------------- dates --------------------------------- *)
Digits == <<"0","1","2","3","4","5","6","7","8","9">>
IsDigit(c) == IndexOf(Digits, c) # 0
DigitVal(c) == IndexOf(Digits, c) - 1

RECURSIVE Number(_)
Number(s) == IF s = <<>> THEN 0
             ELSE 10 * Number(SubSeq(s, 1, Len(s) - 1)) + DigitVal(s[Len(s)])

IsLeap(y) == (y % 4 = 0 /\ y % 100 # 0) \/ y % 400 = 0
DaysIn(y, m) == IF m = 2 THEN (IF IsLeap(y) THEN 29 ELSE 28)
                ELSE IF m \in {4, 6, 9, 11} THEN 30 ELSE 31

\* pd.to_datetime(column, errors='coerce') on one cell: a YYYY-MM-DD text
\* naming a calendar day becomes a timestamp, anything else NaT.
to_datetime(x) ==
    IF x.t = "str" /\ Len(x.v) = 10 /\ x.v[5] = "-" /\ x.v[8] = "-"
       /\ \A i \in {1, 2, 3, 4, 6, 7, 9, 10} : IsDigit(x.v[i])
    THEN LET y == Number(SubSeq(x.v, 1, 4))
             m == Number(SubSeq(x.v, 6, 7))
             d == Number(SubSeq(x.v, 9, 10))
         IN IF m \in 1..12 /\ d \in 1..DaysIn(y, m) THEN Timestamp(y, m, d) ELSE NaT
    ELSE NaT

\* .dt.to_period('M') on one cell: year and month, NaT stays NaT.
to_period_M(x) == IF x.t = "datetime" THEN [t |-> "period", v |-> <<x.v[1], x.v[2]>>] ELSE NaT

PeriodLess(a, b) == a.v[1] < b.v[1] \/ (a.v[1] = b.v[1] /\ a.v[2] < b.v[2])

(* ------------------------------ inputs --------------------------------- *)
\* Header line of the usual sales file, in file order.
MixedHeader == << <<"R","e","g","i","o","n">>,
                  <<"C","o","u","n","t","r","y">>,
                  <<"I","t","e","m"," ","T","y","p","e">>,
                  <<"S","a","l","e","s"," ","C","h","a","n","n","e","l">>,
                  <<"O","r","d","e","r"," ","D","a","t","e">>,
                  <<"S","h","i","p"," ","D","a","t","e">>,
                  <<"U","n","i","t","s"," ","S","o","l","d">>,
                  <<"T","o","t","a","l"," ","R","e","v","e","n","u","e">> >>
CanonHeader == <<region, country, item_type, sales_channel,
                 order_date, ship_date, units_sold, total_revenue>>
PaddedHeader == [i \in DOMAIN MixedHeader |-> <<" ">> \o MixedHeader[i] \o <<" ", "\t">>]

SouthAmerica == Str(<<"S","o","u","t","h"," ","A","m","e","r","i","c","a">>)
NorthAmerica == Str(<<"N","o","r","t","h"," ","A","m","e","r","i","c","a">>)
Brazil == Str(<<"B","r","a","z","i","l">>)
USA == Str(<<"U","S","A">>)
Pens == Str(<<"P","e","n","s">>)
Toys == Str(<<"T","o","y","s">>)
Online == Str(<<"O","n","l","i","n","e">>)
Offline == Str(<<"O","f","f","l","i","n","e">>)
Jan05 == Str(<<"2","0","2","1","-","0","1","-","0","5">>)
Jan20 == Str(<<"2","0","2","1","-","0","1","-","2","0">>)
Feb10 == Str(<<"2","0","2","1","-","0","2","-","1","0">>)
BadDate == Str(<<"2","0","2","1","-","0","2","-","3","0">>)

\* Data lines, aligned with MixedHeader.
Row1 == <<SouthAmerica, Brazil, Toys, Online, Jan05, Jan20, IntV(10), FloatV(100)>>
Row2 == <<SouthAmerica, Brazil, Toys, Online, Jan20, Feb10, IntV(5), FloatV(300)>>
Row3 == <<NorthAmerica, USA, Pens, Offline, Feb10, BadDate, IntV(10), FloatV(100)>>
Row4 == <<NorthAmerica, NaN, Pens, Offline, BadDate, Feb10, IntV(5), FloatV(300)>>
Row5 == <<NorthAmerica, USA, Toys, Offline, Feb10, Feb10, IntV(10), FloatV(300)>>
RowUniverse == {Row1, Row2, Row3, Row4, Row5}

Files == UNION {[1..n -> RowUniverse] : n \in 0..MaxRows}

\* A source is the header line and the data lines; dropping header column
\* d (0: none) drops that field from every line.  A file of zero bytes has
\* neither.
SourceOf(header, d, lines) ==
    IF d = 0 THEN [header |-> header, rows |-> lines]
    ELSE [header |-> DropAt(header, d),
          rows |-> [i \in DOMAIN lines |-> DropAt(lines[i], d)]]

EmptyFile == [header |-> <<>>, rows |-> <<>>]

\* The sources: every file under a header that normalises to the required
\* names (already normal, or capitalised, spaced and padded), every file
\* under the usual header less one column, and the file of zero bytes.
Sources == {SourceOf(h, 0, f) : h \in {CanonHeader, PaddedHeader}, f \in Files}
           \cup {SourceOf(MixedHeader, d, f) : d \in DOMAIN MixedHeader, f \in Files}
           \cup {EmptyFile}

(* ----------------------------- DataFrame -------------------------------- *)
EmptyFrame == [columns |-> <<>>, dtypes |-> <<>>, data |-> <<>>]

HasColumn(df, name) == IndexOf(df.columns, name) # 0

\* df[name]: the cells of the first column of that name, one per row.
Column(df, name) == LET c == IndexOf(df.columns, name)
                    IN [r \in DOMAIN df.data |-> df.data[r][c]]

DtypeOf(df, name) == df.dtypes[IndexOf(df.columns, name)]

\* The dtype read_csv infers for a column from the cells of one chunk; a
\* chunk without rows has only object columns.
InferDtype(cells) ==
    IF cells = <<>> THEN "object"
    ELSE IF \A i \in DOMAIN cells : cells[i].t = "int" THEN "int64"
    ELSE IF \A i \in DOMAIN cells : cells[i].t \in {"int", "float", "nan"} THEN "float64"
    ELSE "object"

\* One chunk of pd.read_csv(file_path, chunksize=n): the next n data lines
\* after `from` (fewer at the end of the file) under the file's header.
read_csv_chunk(src, from, n) ==
    LET lines == SubSeq(src.rows, from + 1, Min(from + n, Len(src.rows)))
    IN [columns |-> src.header,
        dtypes |-> [j \in DOMAIN src.header |->
                      InferDtype([r \in DOMAIN lines |-> lines[r][j]])],
        data |-> lines]

NormalizeColumns(df) ==
    [df EXCEPT !.columns = [j \in DOMAIN df.columns |-> NormalizeColumn(df.columns[j])]]

\* pd.to_numeric(column, downcast='integer'): the narrowest integer dtype
\* that holds every cell; the cells keep their values.
SmallestInt(cells) ==
    IF \A i \in DOMAIN cells : cells[i].v \in -128..127 THEN "int8"
    ELSE IF \A i \in DOMAIN cells : cells[i].v \in -32768..32767 THEN "int16"
    ELSE "int32"

DowncastIntegers(df) ==
    [df EXCEPT !.dtypes = [j \in DOMAIN df.dtypes |->
        IF df.dtypes[j] \in {"int64", "int32", "int16"}
        THEN SmallestInt([r \in DOMAIN df.data |-> df.data[r][j]])
        ELSE df.dtypes[j]]]

\* pd.to_numeric(column, downcast='float'): float32, which holds every
\* amount of this model exactly.
DowncastFloats(df) ==
    [df EXCEPT !.dtypes = [j \in DOMAIN df.dtypes |->
        IF df.dtypes[j] = "float64" THEN "float32" ELSE df.dtypes[j]]]

\* chunk[name] = pd.to_datetime(chunk[name], errors='coerce')
ParseDates(df, name) ==
    LET c == IndexOf(df.columns, name)
    IN [df EXCEPT !.dtypes[c] = "datetime64[ns]",
                  !.data = [r \in DOMAIN df.data |->
                              [df.data[r] EXCEPT ![c] = to_datetime(df.data[r][c])]]]

\* chunk[objects] = chunk[objects].apply(lambda x: x.astype('category'))
Categorize(df) ==
    [df EXCEPT !.dtypes = [j \in DOMAIN df.dtypes |->
        IF df.dtypes[j] = "object" THEN "category" ELSE df.dtypes[j]]]

\* Everything _process_chunk does to the chunk before the first merge.
Compact(df) ==
    Categorize(ParseDates(ParseDates(DowncastFloats(DowncastIntegers(
        NormalizeColumns(df))), order_date), ship_date))

(* ------------------------------ groupby -------------------------------- *)
RECURSIVE SortKeys(_)
SortKeys(S) ==
    IF S = {} THEN <<>>
    ELSE LET m == CHOOSE x \in S : \A y \in S \ {x} : StrLess(x.v, y.v)
         IN <<m>> \o SortKeys(S \ {m})

\* Variant: the aggregation counts the rows of a key instead of summing.
GroupCount(df, by, val) ==
    LET keys == Column(df, by)
        present == {keys[r] : r \in {q \in DOMAIN keys : ~IsNull(keys[q])}}
        order == SortKeys(present)
    IN [i \in DOMAIN order |->
          [k |-> order[i], v |-> Cardinality({r \in DOMAIN keys : keys[r] = order[i]})]]

\* chunk.groupby(by, observed=True).agg({val: 'sum'}): one item per key
\* that occurs in the chunk, in ascending key order, rows whose key is
\* missing left out; the sum of the val cells of the key's rows.
GroupSum(df, by, val) ==
    LET keys == Column(df, by)
        cells == Column(df, val)
        present == {keys[r] : r \in {q \in DOMAIN keys : ~IsNull(keys[q])}}
        order == SortKeys(present)
        rowsOf(k) == {r \in DOMAIN keys : keys[r] = k}
    IN [i \in DOMAIN order |->
          [k |-> order[i],
           v |-> SumSeq([r \in DOMAIN keys |->
                           IF r \in rowsOf(order[i]) THEN cells[r].v ELSE 0])]]

PairLess(a, b) == StrLess(a[1].v, b[1].v) \/ (a[1] = b[1] /\ PeriodLess(a[2], b[2]))

RECURSIVE SortPairs(_)
SortPairs(S) ==
    IF S = {} THEN <<>>
    ELSE LET m == CHOOSE x \in S : \A y \in S \ {x} : PairLess(x, y)
         IN <<m>> \o SortPairs(S \ {m})

\* Variant: no grouping, one item per row that has a product and a month.
MonthlyPerRow(df) ==
    LET products == Column(df, item_type)
        dates == Column(df, order_date)
        cells == Column(df, total_revenue)
        kept == SelectSeq([r \in DOMAIN df.data |->
                             [k |-> <<products[r], to_period_M(dates[r])>>, v |-> cells[r].v]],
                          LAMBDA e : ~IsNull(e.k[1]) /\ ~IsNull(e.k[2]))
    IN kept

\* Variant: the grouping keeps rows with a missing month (dropna=False).
MonthlyGroupSumKeepNa(df) ==
    LET products == Column(df, item_type)
        dates == Column(df, order_date)
        months == [r \in DOMAIN df.data |-> to_period_M(dates[r])]
        cells == Column(df, total_revenue)
        kept == {r \in DOMAIN df.data : ~IsNull(products[r])}
        order == SortPairs({<<products[r], months[r]>> : r \in kept})
        rowsOf(k) == {r \in kept : <<products[r], months[r]>> = k}
    IN [i \in DOMAIN order |->
          [k |-> order[i],
           v |-> SumSeq([r \in DOMAIN df.data |->
                           IF r \in rowsOf(order[i]) THEN cells[r].v ELSE 0])]]

\* chunk.groupby(['item_type', 'month'], observed=True)['total_revenue'].sum()
\* with month = order_date.dt.to_period('M'): one item per (product, month)
\* of the chunk; rows with a missing product or a missing month left out.
MonthlyGroupSum(df) ==
    LET products == Column(df, item_type)
        dates == Column(df, order_date)
        months == [r \in DOMAIN df.data |-> to_period_M(dates[r])]
        cells == Column(df, total_revenue)
        kept == {r \in DOMAIN df.data : ~IsNull(products[r]) /\ ~IsNull(months[r])}
        order == SortPairs({<<products[r], months[r]>> : r \in kept})
        rowsOf(k) == {r \in kept : <<products[r], months[r]>> = k}
    IN [i \in DOMAIN order |->
          [k |-> order[i],
           v |-> SumSeq([r \in DOMAIN df.data |->
                           IF r \in rowsOf(order[i]) THEN cells[r].v ELSE 0])]]

(* ------------------------------- dicts --------------------------------- *)
Keys(d) == {d[i].k : i \in DOMAIN d}
Get(d, key) == d[CHOOSE i \in DOMAIN d : d[i].k = key].v
AsMapping(d) == {<<d[i].k, d[i].v>> : i \in DOMAIN d}

\* Variant: the value of the batch replaces the running value.
AddToOverwriting(d, key, value) ==
    LET d0 == IF key \in Keys(d) THEN d ELSE Append(d, [k |-> key, v |-> 0])
    IN [i \in DOMAIN d0 |-> IF d0[i].k = key THEN [d0[i] EXCEPT !.v = value]
                                              ELSE d0[i]]

\* One pass of the loop of _update_sales_totals for the item (key, value).
AddTo(d, key, value) ==
    LET d0 == IF key \in Keys(d) THEN d ELSE Append(d, [k |-> key, v |-> 0])
    IN [i \in DOMAIN d0 |-> IF d0[i].k = key THEN [d0[i] EXCEPT !.v = @ + value]
                                              ELSE d0[i]]

RECURSIVE MergeItems(_, _)
MergeItems(d, items) ==
    IF items = <<>> THEN d
    ELSE MergeItems(AddTo(d, Head(items).k, Head(items).v), Tail(items))

_update_sales_totals(df, group_by_column, sales_dict, value_column) ==
    MergeItems(sales_dict, GroupSum(df, group_by_column, value_column))

\* One pass of the monthly loop of _process_chunk: [total, count].
AddMonthly(d, key, total) ==
    LET d0 == IF key \in Keys(d) THEN d ELSE Append(d, [k |-> key, v |-> <<0, 0>>])
    IN [i \in DOMAIN d0 |->
          IF d0[i].k = key THEN [d0[i] EXCEPT !.v = <<@[1] + total, @[2] + 1>>]
                           ELSE d0[i]]

RECURSIVE MergeMonthly(_, _)
MergeMonthly(d, items) ==
    IF items = <<>> THEN d
    ELSE MergeMonthly(AddMonthly(d, Head(items).k, Head(items).v), Tail(items))

update_monthly_sales(df, monthly) == MergeMonthly(monthly, MonthlyGroupSum(df))

\* Variant: the last key of maximal value.
MaxKeyLast(d) ==
    d[CHOOSE i \in DOMAIN d :
        /\ \A j \in DOMAIN d : d[j].v <= d[i].v
        /\ \A j \in (i + 1)..Len(d) : d[j].v < d[i].v].k

\* max(d, key=d.get): the first key, in insertion order, of maximal value.
MaxKey(d) ==
    d[CHOOSE i \in DOMAIN d :
        /\ \A j \in DOMAIN d : d[j].v <= d[i].v
        /\ \A j \in 1..(i - 1) : d[j].v < d[i].v].k

RECURSIVE GCD(_, _)
GCD(a, b) == IF b = 0 THEN a ELSE GCD(b, a % b)

\* Variant: floor division.
FloorDiv(a, b) == <<a \div b, 1>>

\* v[0] / v[1], true division: the quotient as a fraction in lowest terms.
TrueDiv(a, b) == <<a \div GCD(a, b), b \div GCD(a, b)>>

monthly_avg_sales(monthly) ==
    [i \in DOMAIN monthly |->
       [k |-> monthly[i].k, v |-> TrueDiv(monthly[i].v[1], monthly[i].v[2])]]

(* --------------------------- the program ------------------------------- *)
NoError == [type |-> "none", at |-> "none"]

\* SalesProcessor.__init__: the five dictionaries start empty.
Init ==
    /\ source \in Sources
    /\ chunksize \in 1..MaxChunk
    /\ pc = "open"
    /\ error = NoError
    /\ pos = 0
    /\ chunk_number = 0
    /\ chunk = EmptyFrame
    /\ product_sales = <<>>
    /\ sales_channel_sales = <<>>
    /\ country_sales = <<>>
    /\ region_sales = <<>>
    /\ monthly_sales = <<>>
    /\ telemetry = <<>>
    /\ summary = <<>>
    /\ runs = 1
    /\ constructed = 1
    /\ first_run = <<>>

Raise(type, at) ==
    /\ pc' = "failed"
    /\ error' = [type |-> type, at |-> at]

\* process_sales_data up to the call of pd.read_csv, which reads the header
\* and raises EmptyDataError on a file without one.
OpenReader ==
    /\ pc = "open"
    /\ chunk_number' = 0
    /\ pos' = 0
    /\ IF source.header = <<>>
       THEN Raise("EmptyDataError", "process_sales_data")
       ELSE pc' = "next" /\ UNCHANGED error
    /\ UNCHANGED <<source, chunksize, chunk, aggregates, telemetry, summary,
                   runs, constructed, first_run>>

\* The reader has a chunk to give: data lines are left, or nothing was read
\* yet (the first read of a file with a header and no data lines gives a
\* frame without rows).
HasNext == pos < Len(source.rows) \/ chunk_number = 0

\* for chunk in pd.read_csv(...): chunk_number += 1
NextChunk ==
    /\ pc = "next"
    /\ HasNext
    /\ chunk' = read_csv_chunk(source, pos, chunksize)
    /\ pos' = Min(pos + chunksize, Len(source.rows))
    /\ chunk_number' = chunk_number + 1
    /\ pc' = "compact"
    /\ UNCHANGED <<source, chunksize, error, aggregates, telemetry, summary,
                   runs, constructed, first_run>>

\* _process_chunk up to the first merge: column names, downcasts, dates,
\* categories.  chunk['order_date'] and chunk['ship_date'] raise KeyError
\* when the normalised header lacks them.
CompactChunk ==
    /\ pc = "compact"
    /\ LET narrowed == DowncastFloats(DowncastIntegers(NormalizeColumns(chunk)))
       IN IF ~HasColumn(narrowed, order_date)
          THEN chunk' = narrowed /\ Raise("KeyError", "process_sales_data")
          ELSE IF ~HasColumn(narrowed, ship_date)
          THEN /\ chunk' = ParseDates(narrowed, order_date)
               /\ Raise("KeyError", "process_sales_data")
          ELSE chunk' = Compact(chunk) /\ pc' = "product" /\ UNCHANGED error
    /\ UNCHANGED <<source, chunksize, pos, chunk_number, aggregates, telemetry,
                   summary, runs, constructed, first_run>>

\* Variant: every required column is looked up before any merge.
LacksAnyColumn(group_by_column, value_column) ==
    \E name \in {item_type, sales_channel, country, region, units_sold, total_revenue} :
        ~HasColumn(chunk, name)

\* groupby(...).agg({value_column: 'sum'}) raises KeyError when either column
\* is missing.
LacksColumn(group_by_column, value_column) ==
    ~HasColumn(chunk, group_by_column) \/ ~HasColumn(chunk, value_column)

\* A categorical value column (every column of a chunk without rows) has no
\* sum: pandas releases differ on whether the aggregation raises TypeError
\* or gives the empty result.
MayRejectSum(group_by_column, value_column) ==
    /\ ~LacksColumn(group_by_column, value_column)
    /\ DtypeOf(chunk, value_column) = "category"

\* One call of _update_sales_totals from _process_chunk.
MergeStep(here, next, group_by_column, value_column, sales_dict, sales_dict_after) ==
    /\ pc = here
    /\ \/ /\ ~LacksColumn(group_by_column, value_column)
          /\ sales_dict_after =
                 _update_sales_totals(chunk, group_by_column, sales_dict, value_column)
          /\ pc' = next
          /\ UNCHANGED error
       \/ /\ LacksColumn(group_by_column, value_column)
          /\ sales_dict_after = sales_dict
          /\ Raise("KeyError", "process_sales_data")
       \/ /\ MayRejectSum(group_by_column, value_column)
          /\ sales_dict_after = sales_dict
          /\ Raise("TypeError", "process_sales_data")
    /\ UNCHANGED <<source, chunksize, pos, chunk_number, chunk, telemetry,
                   summary, runs, constructed, first_run>>

MergeProduct ==
    /\ MergeStep("product", "channel", item_type, units_sold,
                 product_sales, product_sales')
    /\ UNCHANGED <<sales_channel_sales, country_sales, region_sales, monthly_sales>>

MergeChannel ==
    /\ MergeStep("channel", "country", sales_channel, units_sold,
                 sales_channel_sales, sales_channel_sales')
    /\ UNCHANGED <<product_sales, country_sales, region_sales, monthly_sales>>

MergeCountry ==
    /\ MergeStep("country", "region", country, total_revenue,
                 country_sales, country_sales')
    /\ UNCHANGED <<product_sales, sales_channel_sales, region_sales, monthly_sales>>

MergeRegion ==
    /\ MergeStep("region", "monthly", region, total_revenue,
                 region_sales, region_sales')
    /\ UNCHANGED <<product_sales, sales_channel_sales, country_sales, monthly_sales>>

\* The month column and the monthly loop of _process_chunk.  All three
\* columns it reads were read before, so they exist here.
MergeMonth ==
    /\ pc = "monthly"
    /\ \/ /\ monthly_sales' = update_monthly_sales(chunk, monthly_sales)
          /\ pc' = "monitor"
          /\ UNCHANGED error
       \/ /\ DtypeOf(chunk, total_revenue) = "category"
          /\ monthly_sales' = monthly_sales
          /\ Raise("TypeError", "process_sales_data")
    /\ UNCHANGED <<source, chunksize, pos, chunk_number, chunk, product_sales,
                   sales_channel_sales, country_sales, region_sales, telemetry,
                   summary, runs, constructed, first_run>>

\* Variant: the step printed counts from zero.
print_resource_usage_from_zero ==
    /\ pc = "monitor"
    /\ telemetry' = Append(telemetry, chunk_number - 1)
    /\ pc' = "next"
    /\ UNCHANGED <<source, chunksize, error, pos, chunk_number, chunk, aggregates,
                   summary, runs, constructed, first_run>>

\* self._print_resource_usage(chunk_number): prints "Chunk: {step}" and the
\* process counters.
_print_resource_usage ==
    /\ pc = "monitor"
    /\ telemetry' = Append(telemetry, chunk_number)
    /\ pc' = "next"
    /\ UNCHANGED <<source, chunksize, error, pos, chunk_number, chunk, aggregates,
                   summary, runs, constructed, first_run>>

\* The reader is exhausted: the loop ends and the total time is printed.
FinishScan ==
    /\ pc = "next"
    /\ ~HasNext
    /\ pc' = "scanned"
    /\ UNCHANGED <<source, chunksize, error, pos, chunk_number, chunk, aggregates,
                   telemetry, summary, runs, constructed, first_run>>

\* The lines print_summary prints: one per dimension, in the order product,
\* channel, country, region, up to the first empty dictionary (max() of an
\* empty dict raises ValueError), then the monthly averages.
TopLine(what, d) == [what |-> what, key |-> MaxKey(d), value |-> Get(d, MaxKey(d))]

\* Variant: an empty dictionary is passed over.
RECURSIVE TopLinesSkipEmpty(_)
TopLinesSkipEmpty(ds) ==
    IF ds = <<>> THEN <<>>
    ELSE IF Head(ds)[2] = <<>> THEN TopLinesSkipEmpty(Tail(ds))
    ELSE <<TopLine(Head(ds)[1], Head(ds)[2])>> \o TopLinesSkipEmpty(Tail(ds))

RECURSIVE TopLines(_)
TopLines(ds) ==
    IF ds = <<>> \/ Head(ds)[2] = <<>> THEN <<>>
    ELSE <<TopLine(Head(ds)[1], Head(ds)[2])>> \o TopLines(Tail(ds))

Dimensions == << <<"product", product_sales>>, <<"channel", sales_channel_sales>>,
                 <<"country", country_sales>>, <<"region", region_sales>> >>

print_summary ==
    /\ pc = "scanned"
    /\ IF \E i \in DOMAIN Dimensions : Dimensions[i][2] = <<>>
       THEN /\ summary' = TopLines(Dimensions)
            /\ Raise("ValueError", "print_summary")
       ELSE /\ summary' = Append(TopLines(Dimensions),
                                 [what |-> "monthly", key |-> "all",
                                  value |-> monthly_avg_sales(monthly_sales)])
            /\ pc' = "reported"
            /\ UNCHANGED error
    /\ UNCHANGED <<source, chunksize, pos, chunk_number, chunk, aggregates,
                   telemetry, runs, constructed, first_run>>

\* src/main.py: construct, process_sales_data, print_summary.
Next ==
    \/ OpenReader
    \/ NextChunk
    \/ CompactChunk
    \/ MergeProduct
    \/ MergeChannel
    \/ MergeCountry
    \/ MergeRegion
    \/ MergeMonth
    \/ _print_resource_usage
    \/ FinishScan
    \/ print_summary

Spec == Init /\ [][Next]_vars

(* ------------------- the scan as a function of its input ---------------- *)
NoAggregates == [product |-> <<>>, channel |-> <<>>, country |-> <<>>,
                 region |-> <<>>, monthly |-> <<>>]

\* All merges of _process_chunk for one chunk.
process_chunk(df, a) ==
    LET c == Compact(df)
    IN [product |-> _update_sales_totals(c, item_type, a.product, units_sold),
        channel |-> _update_sales_totals(c, sales_channel, a.channel, units_sold),
        country |-> _update_sales_totals(c, country, a.country, total_revenue),
        region |-> _update_sales_totals(c, region, a.region, total_revenue),
        monthly |-> update_monthly_sales(c, a.monthly)]

\* The loop of process_sales_data over a source with all columns, cut into
\* chunks of n lines, from line `from` on.
RECURSIVE ScanFrom(_, _, _, _, _)
ScanFrom(src, n, from, first, a) ==
    IF from >= Len(src.rows) /\ ~first THEN a
    ELSE ScanFrom(src, n, Min(from + n, Len(src.rows)), FALSE,
                  process_chunk(read_csv_chunk(src, from, n), a))

ScanAll(src, n) == ScanFrom(src, n, 0, TRUE, NoAggregates)

(* ------------------ calling process_sales_data again -------------------- *)
\* Variant: process_sales_data empties the dictionaries when it starts.
CallAgainResetting ==
    /\ pc = "scanned"
    /\ runs < MaxRuns
    /\ runs' = runs + 1
    /\ first_run' = IF runs = 1 THEN aggregates ELSE first_run
    /\ product_sales' = <<>>
    /\ sales_channel_sales' = <<>>
    /\ country_sales' = <<>>
    /\ region_sales' = <<>>
    /\ monthly_sales' = <<>>
    /\ pc' = "open"
    /\ UNCHANGED <<source, chunksize, error, pos, chunk_number, chunk,
                   telemetry, summary, constructed>>

\* A second call of process_sales_data on the same SalesProcessor: nothing
\* but the locals of the call starts over.
CallAgain ==
    /\ pc = "scanned"
    /\ runs < MaxRuns
    /\ runs' = runs + 1
    /\ first_run' = IF runs = 1 THEN aggregates ELSE first_run
    /\ pc' = "open"
    /\ UNCHANGED <<source, chunksize, error, pos, chunk_number, chunk, aggregates,
                   telemetry, summary, constructed>>

\* The program run again: SalesProcessor(file_path) constructs a new object
\* with five empty dictionaries, then process_sales_data.
RunAgain ==
    /\ pc = "scanned"
    /\ runs < MaxRuns
    /\ runs' = runs + 1
    /\ constructed' = runs + 1
    /\ first_run' = IF runs = 1 THEN aggregates ELSE first_run
    /\ product_sales' = <<>>
    /\ sales_channel_sales' = <<>>
    /\ country_sales' = <<>>
    /\ region_sales' = <<>>
    /\ monthly_sales' = <<>>
    /\ pc' = "open"
    /\ UNCHANGED <<source, chunksize, error, pos, chunk_number, chunk,
                   telemetry, summary>>

InitRerun == Init /\ source.header = CanonHeader

NextRerun == Next \/ CallAgain \/ RunAgain

SpecRerun == InitRerun /\ [][NextRerun]_vars

(* ------------------- what the claims are stated over -------------------- *)
\* The data lines of the source as records by column name, whatever the
\* chunks.
Header == [j \in DOMAIN source.header |-> NormalizeColumn(source.header[j])]
Required == {item_type, sales_channel, country, region, units_sold,
             total_revenue, order_date, ship_date}
Complete == Required \subseteq Range(Header)
Lines == LET h == Header
             at == [name \in Range(h) |-> IndexOf(h, name)]
         IN [i \in DOMAIN source.rows |->
               [name \in Range(h) |-> source.rows[i][at[name]]]]
Field(line, name) == line[name]

\* Sum of field val over the lines among `lines` whose field `by` is key.
RECURSIVE TotalOf(_, _, _, _)
TotalOf(lines, by, val, key) ==
    IF lines = <<>> THEN 0
    ELSE (IF Field(Head(lines), by) = key THEN Field(Head(lines), val).v ELSE 0)
         + TotalOf(Tail(lines), by, val, key)

\* The mapping key -> total over the keys that occur (not missing) in lines.
Totals(lines, by, val) ==
    {<<Field(lines[i], by), TotalOf(lines, by, val, Field(lines[i], by))>> :
        i \in {j \in DOMAIN lines : ~IsNull(Field(lines[j], by))}}

NoDuplicateKeys(d) == Cardinality(Keys(d)) = Len(d)

\* Of the sequence all of the data lines: the first n, and batch b.
FirstLines(all, n) == SubSeq(all, 1, Min(n, Len(all)))
Batch(all, b) == SubSeq(all, (b - 1) * chunksize + 1, Min(b * chunksize, Len(all)))

\* Number of batches whose merges are complete, and of those the monitor
\* has reported.
MidBatch == pc \in {"compact", "product", "channel", "country", "region", "monthly"}
            \/ (pc = "failed" /\ error.at = "process_sales_data")
BatchesMerged == IF MidBatch /\ chunk_number > 0 THEN chunk_number - 1 ELSE chunk_number
BatchesMonitored == IF pc = "monitor" THEN chunk_number - 1 ELSE BatchesMerged
NumBatches == IF Len(source.rows) = 0 THEN 1
              ELSE (Len(source.rows) + chunksize - 1) \div chunksize

SwapAt(s, i) == [j \in DOMAIN s |-> IF j = i THEN s[i + 1] ELSE IF j = i + 1 THEN s[i] ELSE s[j]]

\* The same lines with two neighbours exchanged, and the lines themselves.
\* Every order of the lines is reached by such exchanges.
Reorderings(s) == {s} \cup {SwapAt(s, i) : i \in 1..(Len(s) - 1)}

NoMissingCategory ==
    LET all == Lines
    IN \A i \in DOMAIN all :
        \A by \in {item_type, sales_channel, country, region} : ~IsNull(Field(all[i], by))

DimensionTotals ==
    (pc = "scanned" /\ NoMissingCategory) =>
        LET all == Lines
        IN /\ AsMapping(product_sales) = Totals(all, item_type, units_sold)
           /\ AsMapping(sales_channel_sales) = Totals(all, sales_channel, units_sold)
           /\ AsMapping(country_sales) = Totals(all, country, total_revenue)
           /\ AsMapping(region_sales) = Totals(all, region, total_revenue)
           /\ Keys(product_sales) = {Field(all[i], item_type) : i \in DOMAIN all}
           /\ Keys(sales_channel_sales) = {Field(all[i], sales_channel) : i \in DOMAIN all}
           /\ Keys(country_sales) = {Field(all[i], country) : i \in DOMAIN all}
           /\ Keys(region_sales) = {Field(all[i], region) : i \in DOMAIN all}
           /\ NoDuplicateKeys(product_sales) /\ NoDuplicateKeys(sales_channel_sales)
           /\ NoDuplicateKeys(country_sales) /\ NoDuplicateKeys(region_sales)

DimensionTotalsWitness ==
    /\ pc = "scanned"
    /\ NoMissingCategory
    /\ chunk_number = 2
    /\ <<Toys, 15>> \in AsMapping(product_sales)
    /\ <<Pens, 10>> \in AsMapping(product_sales)
    /\ <<Brazil, 400>> \in AsMapping(country_sales)
    /\ <<NorthAmerica, 100>> \in AsMapping(region_sales)

(* ----------------------- the monthly accumulator ------------------------ *)
MonthOf(line) == to_period_M(to_datetime(Field(line, order_date)))
HasPair(line) == ~IsNull(Field(line, item_type)) /\ ~IsNull(MonthOf(line))
PairOf(line) == <<Field(line, item_type), MonthOf(line)>>

\* Revenue of the lines of the pair among `lines`.
RECURSIVE PairRevenue(_, _)
PairRevenue(lines, pair) ==
    IF lines = <<>> THEN 0
    ELSE (IF HasPair(Head(lines)) /\ PairOf(Head(lines)) = pair
          THEN Field(Head(lines), total_revenue).v ELSE 0)
         + PairRevenue(Tail(lines), pair)

InBatch(all, b, pair) ==
    \E i \in DOMAIN Batch(all, b) : HasPair(Batch(all, b)[i]) /\ PairOf(Batch(all, b)[i]) = pair

\* Number of the first n batches with at least one line of the pair.
BatchCount(all, n, pair) == Cardinality({b \in 1..n : InBatch(all, b, pair)})

CountOf(monthly, pair) == IF pair \in Keys(monthly) THEN Get(monthly, pair)[2] ELSE 0

MonthlyState ==
    LET all == Lines
        merged == FirstLines(all, BatchesMerged * chunksize)
    IN IF BatchesMerged = 0 THEN monthly_sales = <<>> ELSE
        /\ Keys(monthly_sales) = {PairOf(merged[i]) : i \in {j \in DOMAIN merged : HasPair(merged[j])}}
        /\ NoDuplicateKeys(monthly_sales)
        /\ \A i \in DOMAIN monthly_sales :
              monthly_sales[i].v = <<PairRevenue(merged, monthly_sales[i].k),
                                     BatchCount(all, BatchesMerged, monthly_sales[i].k)>>

MonthlyStep ==
    \A pair \in Keys(monthly_sales') :
        CountOf(monthly_sales', pair) - CountOf(monthly_sales, pair) \in {0, 1}

\* C2: for every key of the monthly accumulator, count is the number of
\* processed batches with at least one row of that (product, month) pair,
\* sum is the revenue of all rows of the pair in the processed batches, and
\* a batch raises a count by one or not at all.
MonthlyAccumulator == [](MonthlyState) /\ [][MonthlyStep]_vars

MonthlyAccumulatorWitness ==
    /\ pc = "scanned"
    /\ chunksize = 2
    /\ Len(source.rows) = 3
    /\ \E i \in DOMAIN monthly_sales : monthly_sales[i].v = <<700, 2>>

\* C3: the average reported for a pair is the revenue of the pair divided by
\* the number of batches with the pair; two rows of one product and month
\* with revenues 100 and 300 give 400 in one batch and 200 in two.
AverageOf(averages, pair) == averages[CHOOSE i \in DOMAIN averages : averages[i].k = pair].v

TwoRowCase ==
    /\ Len(source.rows) = 2
    /\ HasPair(Lines[1]) /\ HasPair(Lines[2])
    /\ PairOf(Lines[1]) = PairOf(Lines[2])
    /\ {Field(Lines[1], total_revenue).v, Field(Lines[2], total_revenue).v} = {100, 300}

MonthlyAverage ==
    pc = "reported" =>
        LET all == Lines
            averages == summary[5].value
        IN /\ {averages[i].k : i \in DOMAIN averages} = Keys(monthly_sales)
           /\ \A i \in DOMAIN averages :
                 /\ averages[i].v[2] > 0
                 /\ averages[i].v[1] * BatchCount(all, NumBatches, averages[i].k)
                       = PairRevenue(all, averages[i].k) * averages[i].v[2]
           /\ (TwoRowCase /\ chunksize >= 2) => AverageOf(averages, PairOf(all[1])) = <<400, 1>>
           /\ (TwoRowCase /\ chunksize = 1) => AverageOf(averages, PairOf(all[1])) = <<200, 1>>

MonthlyAverageWitness ==
    /\ pc = "reported"
    /\ TwoRowCase
    /\ chunksize = 1
    /\ summary[5].value[1].v = <<200, 1>>

\* C10: the monitor runs once per batch, the k-th time with index k, after
\* the five merges of batch k and before batch k + 1 is requested, and it
\* leaves the five aggregates as they are.
MonitorState ==
    /\ telemetry = [k \in 1..BatchesMonitored |-> k]
    /\ pc = "scanned" => Len(telemetry) = NumBatches
    /\ pc = "monitor" =>
          LET merged == FirstLines(Lines, chunk_number * chunksize)
          IN /\ AsMapping(product_sales) = Totals(merged, item_type, units_sold)
             /\ AsMapping(sales_channel_sales) = Totals(merged, sales_channel, units_sold)
             /\ AsMapping(country_sales) = Totals(merged, country, total_revenue)
             /\ AsMapping(region_sales) = Totals(merged, region, total_revenue)
             /\ \A i \in DOMAIN monthly_sales :
                   monthly_sales[i].v[2] = BatchCount(Lines, chunk_number, monthly_sales[i].k)

MonitorStep ==
    /\ telemetry' # telemetry =>
          /\ pc = "monitor"
          /\ telemetry' = Append(telemetry, chunk_number)
          /\ aggregates' = aggregates
    /\ chunk_number' = chunk_number + 1 => Len(telemetry) = chunk_number

SequentialMonitor == [](MonitorState) /\ [][MonitorStep]_vars

SequentialMonitorWitness ==
    /\ pc = "scanned"
    /\ telemetry = <<1, 2, 3>>
    /\ Len(monthly_sales) = 2

(* --------------------------- unparseable dates -------------------------- *)
UnknownMonth(line) == ~IsNull(Field(line, item_type)) /\ IsNull(MonthOf(line))

RECURSIVE SumValues(_)
SumValues(d) == IF d = <<>> THEN 0 ELSE Head(d).v + SumValues(Tail(d))

RECURSIVE SumRevenue(_)
SumRevenue(d) == IF d = <<>> THEN 0 ELSE Head(d).v[1] + SumRevenue(Tail(d))

RECURSIVE SumField(_, _)
SumField(lines, name) ==
    IF lines = <<>> THEN 0 ELSE Field(Head(lines), name).v + SumField(Tail(lines), name)

\* C5 as claimed: a row whose order_date fails to parse is grouped under an
\* "unknown month" key of its product in the monthly accumulator.
UnknownMonthBucketed ==
    pc = "scanned" =>
        \A i \in DOMAIN Lines :
            UnknownMonth(Lines[i]) => <<Field(Lines[i], item_type), NaT>> \in Keys(monthly_sales)

\* C5, amended: the row is coerced to a null date and stays in its batch (it
\* counts in the dimension mappings), but the monthly grouping leaves it out:
\* no key has a missing month and its revenue is in no monthly sum.
UnknownMonthLeftOut ==
    LET all == Lines
    IN /\ pc = "monthly" =>
             /\ Len(chunk.data) = Len(Batch(all, chunk_number))
             /\ \A r \in DOMAIN chunk.data :
                   IsNull(MonthOf(Batch(all, chunk_number)[r]))
                       <=> Column(chunk, order_date)[r] = NaT
       /\ \A i \in DOMAIN monthly_sales : ~IsNull(monthly_sales[i].k[2])
       /\ pc = "scanned" =>
             /\ SumRevenue(monthly_sales)
                   = SumField(SelectSeq(all, HasPair), total_revenue)
             /\ SumValues(product_sales)
                   = SumField(SelectSeq(all, LAMBDA l : ~IsNull(Field(l, item_type))), units_sold)

UnknownMonthWitness ==
    /\ pc = "scanned"
    /\ Len(source.rows) = 2
    /\ UnknownMonth(Lines[1])
    /\ HasPair(Lines[2])
    /\ Len(monthly_sales) = 1
    /\ SumValues(product_sales) = 15

(* ------------------------------ tie-breaks ------------------------------ *)
\* The keys of maximal value of a mapping.
Maximal(d) == {d[i].k : i \in {j \in DOMAIN d : \A l \in DOMAIN d : d[l].v <= d[j].v}}

\* Position of the first line with that key.
FirstLineOf(all, by, key) ==
    CHOOSE i \in DOMAIN all : Field(all[i], by) = key
                              /\ \A j \in 1..(i - 1) : Field(all[j], by) # key

FirstBatchOf(all, by, key) == (FirstLineOf(all, by, key) + chunksize - 1) \div chunksize

FirstEncountered(all, by, d) ==
    CHOOSE k \in Maximal(d) :
        \A o \in Maximal(d) : FirstLineOf(all, by, k) <= FirstLineOf(all, by, o)

\* The tied key of the earliest batch, and among those of one batch the
\* least in string order.
FirstInserted(all, by, d) ==
    CHOOSE k \in Maximal(d) :
        \A o \in Maximal(d) \ {k} :
            \/ FirstBatchOf(all, by, k) < FirstBatchOf(all, by, o)
            \/ /\ FirstBatchOf(all, by, k) = FirstBatchOf(all, by, o)
               /\ StrLess(k.v, o.v)

ByColumn == <<item_type, sales_channel, country, region>>

\* C7 as claimed: among keys of equal maximal value print_summary selects
\* the one encountered first in the input rows.
TieFirstEncountered ==
    pc = "reported" =>
        \A i \in 1..4 :
            summary[i].key = FirstEncountered(Lines, ByColumn[i], Dimensions[i][2])

\* C7, amended: it selects the tied key inserted first into the mapping:
\* that of the earliest batch, and among keys that first occur in the same
\* batch the least in string order.
TieFirstInserted ==
    pc = "reported" =>
        \A i \in 1..4 :
            /\ summary[i].key = FirstInserted(Lines, ByColumn[i], Dimensions[i][2])
            /\ summary[i].value = Get(Dimensions[i][2], summary[i].key)
            /\ \A j \in DOMAIN Dimensions[i][2] : Dimensions[i][2][j].v <= summary[i].value

TieWitness ==
    /\ pc = "reported"
    /\ chunksize >= 2
    /\ Cardinality(Maximal(product_sales)) = 2
    /\ summary[1].key = Pens
    /\ Field(Lines[1], item_type) = Toys

(* ---------------------------- missing columns --------------------------- *)
Present(name) == name \in Range(Header)
DatesRead == Present(order_date) /\ Present(ship_date)
ProductMerged == DatesRead /\ Present(item_type) /\ Present(units_sold)
ChannelMerged == ProductMerged /\ Present(sales_channel)
CountryMerged == ChannelMerged /\ Present(country) /\ Present(total_revenue)
RegionMerged == CountryMerged /\ Present(region)

\* C8 as claimed: a batch that lacks a required column fails before anything
\* else is done with it, so it modifies none of the five aggregates.
MissingColumnLeavesAggregates ==
    error.type = "KeyError" => aggregates = <<<<>>, <<>>, <<>>, <<>>, <<>>>>

\* C8, amended: the batch fails where the missing column is first used.  The
\* merges before that use are done: the product, channel and country
\* mappings hold the batch's group sums as far as their columns and those
\* used before them exist; the region mapping and the monthly accumulator
\* are untouched, the monitor is not called and no later batch is read.
MissingColumnFailsAtFirstUse ==
    error.type = "KeyError" =>
        LET first == Batch(Lines, 1)
        IN /\ ~RegionMerged
           /\ error.at = "process_sales_data"
           /\ chunk_number = 1
           /\ pos = Min(chunksize, Len(source.rows))
           /\ telemetry = <<>>
           /\ AsMapping(product_sales) =
                 IF ProductMerged THEN Totals(first, item_type, units_sold) ELSE {}
           /\ AsMapping(sales_channel_sales) =
                 IF ChannelMerged THEN Totals(first, sales_channel, units_sold) ELSE {}
           /\ AsMapping(country_sales) =
                 IF CountryMerged THEN Totals(first, country, total_revenue) ELSE {}
           /\ region_sales = <<>>
           /\ monthly_sales = <<>>

MissingColumnWitness ==
    /\ error.type = "KeyError"
    /\ ~Present(region)
    /\ Len(source.rows) = 3
    /\ chunksize = 2
    /\ Len(product_sales) = 2
    /\ country_sales # <<>>

(* ----------------------------- empty sources ---------------------------- *)
\* C9 as claimed: the scan of a source without data rows completes without
\* error; it fails only in print_summary, before any summary line.
ZeroRowsFailOnlyAtReport ==
    (Len(source.rows) = 0 /\ (source.header = <<>> \/ Complete)) =>
        (pc = "failed" => error.at = "print_summary" /\ summary = <<>>)

EmptyBefore(i) == \E j \in 1..i : Dimensions[j][2] = <<>>

\* C9, amended: a source without data rows leaves every aggregate empty and
\* print_summary never succeeds on it: once the scan has completed it fails
\* with ValueError at its first max(), before any summary line (in general
\* it prints the lines before the first empty mapping).  The scan itself may
\* fail: a file without a header line fails when the reader is opened.
ZeroRowsNeverReported ==
    /\ Len(source.rows) = 0 =>
          /\ aggregates = <<<<>>, <<>>, <<>>, <<>>, <<>>>>
          /\ pc # "reported"
          /\ error.at = "print_summary" => summary = <<>>
    /\ source.header = <<>> =>
          pc = "open" \/ (pc = "failed" /\ error = [type |-> "EmptyDataError",
                                                   at |-> "process_sales_data"])
    /\ error.at = "print_summary" =>
          /\ error.type = "ValueError"
          /\ EmptyBefore(4)
          /\ Len(summary) = Cardinality({i \in 1..4 : ~EmptyBefore(i)})
    /\ pc = "reported" => ~EmptyBefore(4) /\ Len(summary) = 5

ZeroRowsWitness ==
    /\ Len(source.rows) = 0
    /\ Complete
    /\ pc = "failed"
    /\ error = [type |-> "ValueError", at |-> "print_summary"]
    /\ summary = <<>>
    /\ telemetry = <<1>>

(* ------------------------------- re-runs -------------------------------- *)
Scaled(d, m) == [i \in DOMAIN d |-> [d[i] EXCEPT !.v = m * @]]
ScaledMonthly(d, m) == [i \in DOMAIN d |-> [d[i] EXCEPT !.v = <<m * @[1], m * @[2]>>]]

\* C6 as claimed: the aggregates are empty at the start of every run of
\* process_sales_data, and a re-run on the same source ends with the
\* aggregates of the first run.
RerunStartsEmpty ==
    /\ pc = "open" => aggregates = <<<<>>, <<>>, <<>>, <<>>, <<>>>>
    /\ (pc = "scanned" /\ runs >= 2) => aggregates = first_run

\* C6, amended: the aggregates are empty when the SalesProcessor is
\* constructed; a run of process_sales_data on a newly constructed one ends
\* with the aggregates of the first run, while each further call on the
\* same object adds the source once more to what is there.
RerunAccumulates ==
    /\ (pc = "open" /\ constructed = runs) => aggregates = <<<<>>, <<>>, <<>>, <<>>, <<>>>>
    /\ (pc = "scanned" /\ runs >= 2) =>
          LET m == runs - constructed + 1
          IN /\ product_sales = Scaled(first_run[1], m)
             /\ sales_channel_sales = Scaled(first_run[2], m)
             /\ country_sales = Scaled(first_run[3], m)
             /\ region_sales = Scaled(first_run[4], m)
             /\ monthly_sales = ScaledMonthly(first_run[5], m)

RerunWitness ==
    /\ pc = "scanned"
    /\ runs = 2
    /\ constructed = 2
    /\ Len(product_sales) = 2
    /\ monthly_sales # <<>>
    /\ aggregates = first_run

====
